---- MODULE Spec2Model ----
(***************************************************************************)
(* TokenMetric backend: the off-chain ledger kept by the vault and         *)
(* protocol route handlers (backend/app/routes/vault.py, protocol.py) and  *)
(* the transaction pipeline of BlockchainClient (backend/app/blockchain.py)*)
(*                                                                         *)
(* Decimal amounts are integers counting units of 10^-(Decimals +          *)
(* ExtraDigits); on-chain amounts ("wei") are integers counting units of   *)
(* 10^-Decimals.                                                           *)
(***************************************************************************)
EXTENDS Integers, Sequences, FiniteSets, TLC

\* ---------------------------------------------------------------------------
\* Bounds of the model
\* ---------------------------------------------------------------------------
MaxVaults == 2
MaxProtocols == 1
MaxTx == 3
MaxWithdrawals == 1
MaxChain == 1
MaxAmount == 1
MaxSent == 2
ExtraDigits == 1
MaxDigits == 30
MaxGas == 2

\* decimals: int = 6, the default of to_wei / from_wei
Decimals == 6

RECURSIVE Pow10(_)
Pow10(n) == IF n = 0 THEN 1 ELSE 10 * Pow10(n - 1)

\* one wei, and one whole token, in ledger units
Sub == Pow10(ExtraDigits)
One == Pow10(Decimals + ExtraDigits)
\* one whole token in wei
WeiOne == Pow10(Decimals)

\* BlockchainClient.to_wei: int(amount * 10 ** decimals), int() truncates
\* toward zero
to_wei(amount) ==
    IF amount >= 0 THEN amount \div Sub ELSE -((-amount) \div Sub)

\* BlockchainClient.from_wei: Decimal(amount) / 10 ** decimals
from_wei(amount) == amount * Sub

decimal_to_wei(amount) == to_wei(amount)

wei_to_decimal(amount) == from_wei(amount)

\* ---------------------------------------------------------------------------
\* to_wei and from_wei on the representation of decimal.Decimal: a value is
\* its coefficient, a sequence of digits, and its exponent.  The module
\* never changes the context of the decimal module, so every arithmetic
\* result is rounded half-even to 28 significant digits; constructing a
\* Decimal and int() are exact.  to_wei and from_wei above are these
\* functions on amounts of at most 28 digits, counted in ledger units.
\* ---------------------------------------------------------------------------
\* decimal.getcontext().prec
DecimalPrec == 28

Zeros(k) == [i \in 1..k |-> 0]

AllZero(digits) == \A i \in 1..Len(digits) : digits[i] = 0

RECURSIVE StripLeading(_)
StripLeading(digits) ==
    IF Len(digits) > 1 /\ digits[1] = 0 THEN StripLeading(Tail(digits)) ELSE digits

\* the coefficient plus one
RECURSIVE Incr(_)
Incr(digits) ==
    IF digits = <<>> THEN <<1>>
    ELSE IF digits[Len(digits)] < 9 THEN [digits EXCEPT ![Len(digits)] = @ + 1]
    ELSE Append(Incr(SubSeq(digits, 1, Len(digits) - 1)), 0)

\* the rounding of an arithmetic result to the context precision
\* (ROUND_HALF_EVEN)
ContextRound(d) ==
    IF Len(d.digits) <= DecimalPrec THEN d
    ELSE LET kept == SubSeq(d.digits, 1, DecimalPrec)
             dropped == SubSeq(d.digits, DecimalPrec + 1, Len(d.digits))
             up == \/ dropped[1] > 5
                   \/ /\ dropped[1] = 5
                      /\ ~AllZero(Tail(dropped)) \/ kept[DecimalPrec] % 2 = 1
             r == IF up THEN Incr(kept) ELSE kept
             e == d.exp + Len(dropped)
         IN IF Len(r) > DecimalPrec
            THEN [digits |-> SubSeq(r, 1, DecimalPrec), exp |-> e + 1]
            ELSE [digits |-> r, exp |-> e]

\* amount * (10 ** k)
TimesPow10(d, k) ==
    ContextRound([digits |-> StripLeading(d.digits \o Zeros(k)), exp |-> d.exp])

\* int(d): the integer part, as a Decimal with exponent 0
IntOf(d) ==
    IF d.exp >= 0 THEN [digits |-> StripLeading(d.digits \o Zeros(d.exp)), exp |-> 0]
    ELSE IF -d.exp >= Len(d.digits) THEN [digits |-> <<0>>, exp |-> 0]
    ELSE [digits |-> SubSeq(d.digits, 1, Len(d.digits) + d.exp), exp |-> 0]

\* to_wei (line 599): int(amount * (10 ** decimals))
to_wei_digits(amount) == IntOf(TimesPow10(amount, Decimals))

\* from_wei (line 604): Decimal(amount) / Decimal(10 ** decimals); the exact
\* quotient has the digits of amount and exponent -decimals, and the division
\* rounds it to the context precision
from_wei_digits(amount) ==
    ContextRound([digits |-> amount.digits, exp |-> amount.exp - Decimals])

\* the value without trailing zeros in its coefficient; Decimal.__eq__
\* compares values
RECURSIVE Normalize(_)
Normalize(d) ==
    IF AllZero(d.digits) THEN [digits |-> <<0>>, exp |-> 0]
    ELSE IF d.digits[Len(d.digits)] = 0
    THEN Normalize([digits |-> SubSeq(d.digits, 1, Len(d.digits) - 1), exp |-> d.exp + 1])
    ELSE [digits |-> StripLeading(d.digits), exp |-> d.exp]

DecimalEq(a, b) == Normalize(a) = Normalize(b)

\* the number of fractional digits of a value
FractionalDigits(d) == IF Normalize(d).exp < 0 THEN -Normalize(d).exp ELSE 0

\* ---------------------------------------------------------------------------
\* Inputs
\* ---------------------------------------------------------------------------
VaultAddrs == {"va", "vb"}
UserAddrs == {"u1", "u2"}
ProtocolAddrs == {"pa", "pb"}
\* amounts of the request bodies; DepositRequest, WithdrawRequest and the
\* allocate query all declare amount with gt=0
Amounts == {n * One : n \in 1..MaxAmount}
VaultIdInputs == 1..MaxVaults
ProtocolIdInputs == 1..MaxProtocols
WithdrawalIdInputs == 1..MaxWithdrawals

\* concurrent callers of the process-wide BlockchainClient
Callers == {1, 2}
\* the write operations of BlockchainClient
WriteOps == {"approve_token", "deposit", "instant_withdraw", "request_withdrawal",
             "process_withdrawal"}

\* a chain read either raises (RpcFail) or returns a uint256
RpcFail == -1
ChainValues == {n * WeiOne : n \in 0..MaxChain}
ReadResults == ChainValues \cup {RpcFail}

VARIABLES
    vaults,        \* table vaults: sequence of rows, id = position
    protocols,     \* table protocols
    users,         \* table users: sequence of wallet addresses, id = position
    vault_users,   \* table vault_users: <<vault_id, user_id>> -> balance
    transactions,  \* table transactions
    withdrawals,   \* table withdrawal_requests
    now,           \* datetime.utcnow(), as a logical clock
    pc,            \* position of the request being handled
    cur,           \* locals of the request being handled
    resp,          \* the request being handled and its response
    private_key,   \* BlockchainClient.private_key is configured
    tx_count,      \* chain: eth_getTransactionCount per sender
    sent,          \* chain: transactions broadcast by send_raw_transaction
    cpc,           \* position of each caller of a BlockchainClient write operation
    ctx,           \* tx_data of each caller
    client_result, \* what the last write operation of each caller returned or raised
    threads,       \* the overlapping ledger requests: locals of each worker thread
    conv,          \* a unit conversion: its argument and what it returned
    built          \* what _build_transaction returned or raised, for each caller

dbvars == <<vaults, protocols, users, vault_users, transactions, withdrawals, now>>
reqvars == <<pc, cur, resp>>
chainvars == <<private_key, tx_count, sent, cpc, ctx, client_result>>
vars == <<vaults, protocols, users, vault_users, transactions, withdrawals, now,
          pc, cur, resp, private_key, tx_count, sent, cpc, ctx, client_result,
          threads, conv, built>>

\* ---------------------------------------------------------------------------
\* Rows and lookups
\* ---------------------------------------------------------------------------
NoCur == [vault_id |-> 0, user_address |-> "none", user_id |-> 0, amount |-> 0,
          tx_id |-> 0]

\* an HTTP response; code 0 while the handler is still running
Response(op, code, detail) ==
    [op |-> op, code |-> code, detail |-> detail, id |-> 0, user_id |-> 0,
     amount |-> 0, new_balance |-> 0, status |-> "", chain |-> "none"]

\* db.query(Vault).filter(Vault.id == vault_id).first()
VaultExists(vault_id) == vault_id \in 1..Len(vaults)

\* db.query(User).filter(User.wallet_address == address).first(); 0 is None
UserId(address) ==
    IF \E i \in 1..Len(users) : users[i] = address
    THEN CHOOSE i \in 1..Len(users) : users[i] = address
    ELSE 0

\* db.query(VaultUser).filter(vault_id, user_id).first() is not None
HasVaultUser(vault_id, user_id) == <<vault_id, user_id>> \in DOMAIN vault_users

\* Vault(**vault_data): the aggregates take their column default 0
NewVault(address) ==
    [address |-> address, total_deposits |-> 0, total_allocated |-> 0,
     total_yield |-> 0, tvl |-> 0, is_active |-> TRUE]

NewTransaction(vault_id, user_id, tx_type, status, amount) ==
    [vault_id |-> vault_id, user_id |-> user_id, tx_type |-> tx_type,
     status |-> status, amount |-> amount, tx_hash |-> "null"]

InitDb ==
    /\ vaults = <<>>
    /\ protocols = <<>>
    /\ users = <<>>
    /\ vault_users = <<>>
    /\ transactions = <<>>
    /\ withdrawals = <<>>
    /\ now = 1
    /\ pc = "idle"
    /\ cur = NoCur
    /\ resp = Response("none", 0, "")

NoTx == [fn |-> "none", sender |-> "none", nonce |-> 0, idx |-> 0]

InitChain ==
    /\ tx_count = [a \in UserAddrs |-> 0]
    /\ sent = <<>>
    /\ cpc = [t \in Callers |-> "idle"]
    /\ ctx = [t \in Callers |-> NoTx]
    /\ client_result = [t \in Callers |-> "none"]

\* a worker thread that handles no request
NoRequest == [pc |-> "idle", op |-> "none", amount |-> 0, code |-> 0,
              vault_id |-> 0, user_id |-> 0, protocol_id |-> 0, tx_id |-> 0,
              total_deposits |-> 0, tvl |-> 0, total_allocated |-> 0,
              has_row |-> FALSE, balance |-> 0, allocated_amount |-> 0]

\* no conversion called
NoDecimal == [digits |-> <<>>, exp |-> 0]
NoConv == [fn |-> "none", arg |-> NoDecimal, out |-> NoDecimal, raised |-> "none"]

\* a caller that has not called _build_transaction
NoBuild == [from |-> "none", to |-> "none", gas_limit |-> 0, raised |-> "none",
            chainId |-> 0, nonce |-> -1, gas |-> 0]

InitIdle ==
    /\ threads = [t \in Callers |-> NoRequest]
    /\ conv = NoConv
    /\ built = [t \in Callers |-> NoBuild]

\* the backend as deployed: PRIVATE_KEY is set in the environment
Init == InitDb /\ InitChain /\ InitIdle /\ private_key = TRUE

\* ---------------------------------------------------------------------------
\* routes/vault.py
\* ---------------------------------------------------------------------------
\* create_vault (lines 33-60); a duplicate address is answered 409 and
\* changes nothing
create_vault(address) ==
    /\ pc = "idle"
    /\ ~\E i \in 1..Len(vaults) : vaults[i].address = address
    /\ Len(vaults) < MaxVaults
    /\ vaults' = Append(vaults, NewVault(address))
    /\ resp' = [Response("create_vault", 201, "") EXCEPT !.id = Len(vaults) + 1]
    /\ UNCHANGED <<protocols, users, vault_users, transactions, withdrawals, now, pc, cur>>
    /\ UNCHANGED chainvars
    /\ UNCHANGED <<threads, conv, built>>

\* deposit, up to the commit of the lazily created user (lines 273-286)
deposit_start(vault_id, user_address, amount) ==
    /\ pc = "idle"
    /\ Len(transactions) < MaxTx
    /\ amount > 0
    /\ VaultExists(vault_id)
    /\ users' = IF UserId(user_address) = 0 THEN Append(users, user_address) ELSE users
    /\ cur' = [vault_id |-> vault_id, user_address |-> user_address,
               user_id |-> IF UserId(user_address) = 0 THEN Len(users) + 1
                           ELSE UserId(user_address),
               amount |-> amount, tx_id |-> 0]
    /\ pc' = "deposit_user"
    /\ resp' = Response("deposit", 0, "")
    /\ UNCHANGED <<vaults, protocols, vault_users, transactions, withdrawals, now>>
    /\ UNCHANGED chainvars
    /\ UNCHANGED <<threads, conv, built>>

\* deposit, the commit of the pending Transaction record (lines 288-302)
deposit_record ==
    /\ pc = "deposit_user"
    /\ transactions' = Append(transactions,
            NewTransaction(cur.vault_id, cur.user_id, "deposit", "pending", cur.amount))
    /\ cur' = [cur EXCEPT !.tx_id = Len(transactions) + 1]
    /\ pc' = "deposit_tx"
    /\ UNCHANGED <<vaults, protocols, users, vault_users, withdrawals, now, resp>>
    /\ UNCHANGED chainvars
    /\ UNCHANGED <<threads, conv, built>>

\* a deposit that forgets vault.tvl
DepositLedgerNoTvl(vault, amount) ==
    [vault EXCEPT !.total_deposits = @ + amount]

\* the ledger update of deposit (lines 319-322)
DepositLedger(vault, amount) ==
    [vault EXCEPT !.total_deposits = @ + amount, !.tvl = @ + amount]

\* deposit, the simulated success and its commit (lines 309-337)
deposit_apply ==
    /\ pc = "deposit_tx"
    /\ LET key == <<cur.vault_id, cur.user_id>>
           new_balance == IF HasVaultUser(cur.vault_id, cur.user_id)
                          THEN vault_users[key] + cur.amount
                          ELSE cur.amount
       IN /\ vault_users' = (key :> new_balance) @@ vault_users
          /\ vaults' = [vaults EXCEPT ![cur.vault_id] = DepositLedger(@, cur.amount)]
          /\ transactions' = [transactions EXCEPT ![cur.tx_id].status = "completed",
                                                  ![cur.tx_id].tx_hash = "mock"]
          /\ resp' = [Response("deposit", 200, "") EXCEPT
                        !.id = cur.vault_id, !.user_id = cur.user_id,
                        !.amount = cur.amount, !.new_balance = new_balance,
                        !.status = "completed"]
    /\ pc' = "idle"
    /\ cur' = NoCur
    /\ UNCHANGED <<protocols, users, withdrawals, now>>
    /\ UNCHANGED chainvars
    /\ UNCHANGED <<threads, conv, built>>

\* get_user_balance (lines 176-222): at most one commit, either of the lazily
\* created user or of the balance read from the chain
get_user_balance(vault_id, user_address, balance_wei) ==
    /\ pc = "idle"
    /\ VaultExists(vault_id)
    /\ LET user_id == IF UserId(user_address) = 0 THEN Len(users) + 1
                      ELSE UserId(user_address)
           has_row == HasVaultUser(vault_id, user_id)
           balance == IF balance_wei # RpcFail THEN wei_to_decimal(balance_wei)
                      ELSE IF has_row THEN vault_users[<<vault_id, user_id>>]
                      ELSE 0
       IN /\ users' = IF UserId(user_address) = 0 THEN Append(users, user_address)
                      ELSE users
          /\ vault_users' = IF balance_wei # RpcFail /\ has_row
                            THEN [vault_users EXCEPT ![<<vault_id, user_id>>] = balance]
                            ELSE vault_users
          /\ resp' = [Response("get_user_balance", 200, "") EXCEPT
                        !.id = vault_id, !.user_id = user_id,
                        !.new_balance = balance,
                        !.chain = IF balance_wei = RpcFail THEN "failed" ELSE "ok"]
    /\ UNCHANGED <<vaults, protocols, transactions, withdrawals, now, pc, cur>>
    /\ UNCHANGED chainvars
    /\ UNCHANGED <<threads, conv, built>>

\* an instant withdrawal that forgets vault.tvl
InstantWithdrawLedgerNoTvl(vault, amount) ==
    [vault EXCEPT !.total_deposits = @ - amount]

\* the ledger update of an instant withdrawal (lines 413-414)
InstantWithdrawLedger(vault, amount) ==
    [vault EXCEPT !.total_deposits = @ - amount, !.tvl = @ - amount]

\* the ledger update of a queued withdrawal (line 444)
QueuedWithdrawLedger(vault, amount) ==
    [vault EXCEPT !.total_deposits = @ - amount]

\* WithdrawalRequest(...) of the queued branch (lines 434-440)
NewWithdrawalRequest(vault_id, user_id, amount) ==
    [vault_id |-> vault_id, user_id |-> user_id, amount |-> amount,
     status |-> "queued", queue_index |-> 0, processed_at |-> 0,
     tx_hash |-> "null"]

\* a balance check that only looks for the row
InsufficientBalanceRowOnly(vault_id, user_id, amount) ==
    ~HasVaultUser(vault_id, user_id)

\* the precondition on the user's balance (line 378)
InsufficientBalance(vault_id, user_id, amount) ==
    \/ ~HasVaultUser(vault_id, user_id)
    \/ vault_users[<<vault_id, user_id>>] < amount

\* withdraw (lines 344-456); balance_wei and vault_balance_wei are what the
\* two chain reads of the instant branch return
withdraw(vault_id, user_address, amount, instant, balance_wei, vault_balance_wei) ==
    /\ pc = "idle"
    /\ amount > 0
    /\ VaultExists(vault_id)
    /\ instant => Len(transactions) < MaxTx
    /\ ~instant => Len(withdrawals) < MaxWithdrawals
    \* the queued branch reads nothing from the chain, and the value of the
    \* first read of the instant branch is never used
    /\ balance_wei \in {RpcFail, 0}
    /\ ~instant => balance_wei = 0 /\ vault_balance_wei = 0
    /\ LET user_id == UserId(user_address)
           key == <<vault_id, user_id>>
           amount_wei == decimal_to_wei(amount)
           Reject(code, detail) ==
              /\ resp' = Response("withdraw", code, detail)
              /\ UNCHANGED <<vaults, vault_users, transactions, withdrawals>>
       IN IF user_id = 0 THEN Reject(404, "User not found")
          ELSE IF InsufficientBalance(vault_id, user_id, amount)
          THEN Reject(400, "Insufficient balance")
          ELSE IF instant
          THEN IF balance_wei = RpcFail \/ vault_balance_wei = RpcFail
               THEN /\ resp' = [Response("withdraw", 500, "Instant withdrawal failed") EXCEPT
                                  !.chain = "failed"]
                    /\ UNCHANGED <<vaults, vault_users, transactions, withdrawals>>
               ELSE IF vault_balance_wei < amount_wei
               \* the HTTPException(400) is raised inside the try block and
               \* caught by its "except Exception"
               THEN /\ resp' = [Response("withdraw", 500,
                                   "Instant withdrawal failed: Insufficient vault liquidity") EXCEPT
                                  !.chain = "ok"]
                    /\ UNCHANGED <<vaults, vault_users, transactions, withdrawals>>
               ELSE /\ transactions' = Append(transactions,
                           NewTransaction(vault_id, user_id, "withdraw", "completed", amount))
                    /\ vault_users' = [vault_users EXCEPT ![key] = @ - amount]
                    /\ vaults' = [vaults EXCEPT ![vault_id] = InstantWithdrawLedger(@, amount)]
                    /\ resp' = [Response("withdraw", 200, "") EXCEPT
                                  !.id = vault_id, !.user_id = user_id, !.amount = amount,
                                  !.new_balance = vault_users[key] - amount,
                                  !.status = "completed", !.chain = "ok"]
                    /\ UNCHANGED withdrawals
          ELSE /\ withdrawals' = Append(withdrawals,
                      NewWithdrawalRequest(vault_id, user_id, amount))
               /\ vault_users' = [vault_users EXCEPT ![key] = @ - amount]
               /\ vaults' = [vaults EXCEPT ![vault_id] = QueuedWithdrawLedger(@, amount)]
               /\ resp' = [Response("withdraw", 200, "") EXCEPT
                             !.id = vault_id, !.user_id = user_id, !.amount = amount,
                             !.new_balance = vault_users[key] - amount,
                             !.status = "queued"]
               /\ UNCHANGED transactions
    /\ UNCHANGED <<protocols, users, now, pc, cur>>
    /\ UNCHANGED chainvars
    /\ UNCHANGED <<threads, conv, built>>

\* a guard that lets a processed request be processed again
ProcessableAgain(status) == status \in {"queued", "processed"}

\* the state a request must be in to be processed (line 506)
Processable(status) == status = "queued"

\* process_withdrawal (lines 485-519)
process_withdrawal(vault_id, withdrawal_id) ==
    /\ pc = "idle"
    /\ withdrawal_id \in 1..Len(withdrawals)
    /\ withdrawals[withdrawal_id].vault_id = vault_id
    /\ IF ~Processable(withdrawals[withdrawal_id].status)
       THEN /\ resp' = [Response("process_withdrawal", 400,
                           "Withdrawal is not in queued state") EXCEPT !.id = withdrawal_id]
            /\ UNCHANGED <<withdrawals, now>>
       ELSE /\ withdrawals' = [withdrawals EXCEPT
                                 ![withdrawal_id].status = "processed",
                                 ![withdrawal_id].processed_at = now,
                                 ![withdrawal_id].tx_hash = "mock"]
            /\ now' = now + 1
            /\ resp' = [Response("process_withdrawal", 200, "") EXCEPT
                          !.id = withdrawal_id, !.status = "processed"]
    /\ UNCHANGED <<vaults, protocols, users, vault_users, transactions, pc, cur>>
    /\ UNCHANGED chainvars
    /\ UNCHANGED <<threads, conv, built>>

\* ---------------------------------------------------------------------------
\* routes/protocol.py
\* ---------------------------------------------------------------------------
\* Protocol(**protocol_data): allocated_amount and is_active take their
\* column defaults
NewProtocol(vault_id, address) ==
    [vault_id |-> vault_id, address |-> address, allocated_amount |-> 0,
     is_active |-> TRUE]

ProtocolExists(protocol_id) == protocol_id \in 1..Len(protocols)

create_protocol(vault_id, address) ==
    /\ pc = "idle"
    /\ VaultExists(vault_id)
    /\ ~\E i \in 1..Len(protocols) :
           protocols[i].vault_id = vault_id /\ protocols[i].address = address
    /\ Len(protocols) < MaxProtocols
    /\ protocols' = Append(protocols, NewProtocol(vault_id, address))
    /\ resp' = [Response("create_protocol", 201, "") EXCEPT !.id = Len(protocols) + 1]
    /\ UNCHANGED <<vaults, users, vault_users, transactions, withdrawals, now, pc, cur>>
    /\ UNCHANGED chainvars
    /\ UNCHANGED <<threads, conv, built>>

\* update_protocol with is_active set in the body; allocated_amount is not a
\* field of ProtocolUpdate
update_protocol(protocol_id, is_active) ==
    /\ pc = "idle"
    /\ ProtocolExists(protocol_id)
    /\ protocols' = [protocols EXCEPT ![protocol_id].is_active = is_active]
    /\ resp' = [Response("update_protocol", 200, "") EXCEPT !.id = protocol_id]
    /\ UNCHANGED <<vaults, users, vault_users, transactions, withdrawals, now, pc, cur>>
    /\ UNCHANGED chainvars
    /\ UNCHANGED <<threads, conv, built>>

\* the soft delete of delete_protocol (line 130)
DeleteProtocolRow(protocol) == [protocol EXCEPT !.is_active = FALSE]

delete_protocol(protocol_id) ==
    /\ pc = "idle"
    /\ ProtocolExists(protocol_id)
    /\ protocols' = [protocols EXCEPT ![protocol_id] = DeleteProtocolRow(@)]
    /\ resp' = [Response("delete_protocol", 204, "") EXCEPT !.id = protocol_id]
    /\ UNCHANGED <<vaults, users, vault_users, transactions, withdrawals, now, pc, cur>>
    /\ UNCHANGED chainvars
    /\ UNCHANGED <<threads, conv, built>>

\* a liquidity check that forgets what is already allocated
InsufficientLiquidityIgnoresAllocated(vault, amount) ==
    vault.total_deposits < amount

\* the liquidity precondition of allocate (lines 170-171)
InsufficientLiquidity(vault, amount) ==
    vault.total_deposits - vault.total_allocated < amount

allocate_to_protocol(protocol_id, amount) ==
    /\ pc = "idle"
    /\ Len(transactions) < MaxTx
    /\ amount > 0
    /\ ProtocolExists(protocol_id)
    /\ LET Reject(code, detail) ==
              /\ resp' = [Response("allocate", code, detail) EXCEPT !.id = protocol_id]
              /\ UNCHANGED <<vaults, protocols, transactions>>
       IN IF ~protocols[protocol_id].is_active
          THEN Reject(400, "Protocol is not active")
          ELSE IF InsufficientLiquidity(vaults[protocols[protocol_id].vault_id], amount)
          THEN Reject(400, "Insufficient vault liquidity")
          ELSE LET vault_id == protocols[protocol_id].vault_id
               IN /\ transactions' = Append(transactions,
                         NewTransaction(vault_id, 0, "allocate", "completed", amount))
                  /\ protocols' = [protocols EXCEPT ![protocol_id].allocated_amount = @ + amount]
                  /\ vaults' = [vaults EXCEPT ![vault_id].total_allocated = @ + amount]
                  /\ resp' = [Response("allocate", 200, "") EXCEPT
                                !.id = protocol_id, !.amount = amount,
                                !.new_balance = protocols[protocol_id].allocated_amount + amount]
    /\ UNCHANGED <<users, vault_users, withdrawals, now, pc, cur>>
    /\ UNCHANGED chainvars
    /\ UNCHANGED <<threads, conv, built>>

\* a deallocation that leaves the vault's total as it was
DeallocateVaultForgotten(vault, amount) == vault

\* the vault's side of a deallocation (line 240)
DeallocateVault(vault, amount) ==
    [vault EXCEPT !.total_allocated = @ - amount]

deallocate_from_protocol(protocol_id, amount) ==
    /\ pc = "idle"
    /\ Len(transactions) < MaxTx
    /\ amount > 0
    /\ ProtocolExists(protocol_id)
    /\ LET Reject(code, detail) ==
              /\ resp' = [Response("deallocate", code, detail) EXCEPT !.id = protocol_id]
              /\ UNCHANGED <<vaults, protocols, transactions>>
       IN IF protocols[protocol_id].allocated_amount < amount
          THEN Reject(400, "Insufficient protocol allocation")
          ELSE LET vault_id == protocols[protocol_id].vault_id
               IN /\ transactions' = Append(transactions,
                         NewTransaction(vault_id, 0, "deallocate", "completed", amount))
                  /\ protocols' = [protocols EXCEPT ![protocol_id].allocated_amount = @ - amount]
                  /\ vaults' = [vaults EXCEPT ![vault_id] = DeallocateVault(@, amount)]
                  /\ resp' = [Response("deallocate", 200, "") EXCEPT
                                !.id = protocol_id, !.amount = amount,
                                !.new_balance = protocols[protocol_id].allocated_amount - amount]
    /\ UNCHANGED <<users, vault_users, withdrawals, now, pc, cur>>
    /\ UNCHANGED chainvars
    /\ UNCHANGED <<threads, conv, built>>

\* ---------------------------------------------------------------------------
\* blockchain.py: the write operations of BlockchainClient
\* ---------------------------------------------------------------------------
\* the expression that resolves the sender's nonce in each write operation;
\* deposit (line 529) names Web2, which is not defined
NonceResolves(fn) == fn # "deposit"

\* a write operation up to the nonce read (lines 494-510, 514-529, 533-547,
\* 551-565, 569-583); rpc_ok is whether eth_getTransactionCount answers
client_build(t, fn, sender, rpc_ok) ==
    /\ cpc[t] = "idle"
    /\ Len(sent) < MaxSent
    /\ IF ~NonceResolves(fn)
       THEN /\ client_result' = [client_result EXCEPT ![t] = "NameError"]
            /\ UNCHANGED <<cpc, ctx>>
       ELSE IF ~rpc_ok
       THEN /\ client_result' = [client_result EXCEPT ![t] = "RpcError"]
            /\ UNCHANGED <<cpc, ctx>>
       ELSE /\ ctx' = [ctx EXCEPT ![t] = [fn |-> fn, sender |-> sender,
                                         nonce |-> tx_count[sender], idx |-> 0]]
            /\ cpc' = [cpc EXCEPT ![t] = "built"]
            /\ client_result' = [client_result EXCEPT ![t] = "running"]
    /\ UNCHANGED <<private_key, tx_count, sent>>
    /\ UNCHANGED dbvars
    /\ UNCHANGED reqvars
    /\ UNCHANGED <<threads, conv, built>>

\* a send step that hands the signed payload to the node twice
BroadcastTwice(log, tx) == Append(Append(log, tx), tx)

\* self.w3.eth.send_raw_transaction(signed.raw_transaction) (line 478), the
\* only send in the module: the node gets the signed payload once
Broadcast(log, tx) == Append(log, tx)

\* _sign_and_send_transaction up to send_raw_transaction (lines 470-478);
\* rpc_ok is whether the node accepts the broadcast
client_sign_and_send(t, rpc_ok) ==
    /\ cpc[t] = "built"
    /\ IF ~private_key
       THEN /\ client_result' = [client_result EXCEPT ![t] = "BlockchainError"]
            /\ cpc' = [cpc EXCEPT ![t] = "idle"]
            /\ ctx' = [ctx EXCEPT ![t] = NoTx]
            /\ UNCHANGED sent
       ELSE IF ~rpc_ok
       THEN /\ client_result' = [client_result EXCEPT ![t] = "RpcError"]
            /\ cpc' = [cpc EXCEPT ![t] = "idle"]
            /\ ctx' = [ctx EXCEPT ![t] = NoTx]
            /\ UNCHANGED sent
       ELSE /\ sent' = Broadcast(sent, [fn |-> ctx[t].fn, sender |-> ctx[t].sender,
                                        nonce |-> ctx[t].nonce, receipt |-> "none"])
            /\ ctx' = [ctx EXCEPT ![t].idx = Len(sent) + 1]
            /\ cpc' = [cpc EXCEPT ![t] = "sent"]
            /\ UNCHANGED client_result
    /\ UNCHANGED <<private_key, tx_count>>
    /\ UNCHANGED dbvars
    /\ UNCHANGED reqvars
    /\ UNCHANGED <<threads, conv, built>>

\* what the caller gets when wait_for_transaction_receipt ends (lines 480-492)
WaitResult(outcome) ==
    IF outcome = "timeout" THEN "TransactionFailedError"
    ELSE IF outcome = "success" THEN "TxReceipt(status=True)"
    ELSE "TxReceipt(status=False)"

\* wait_for_transaction_receipt(tx_hash, timeout=120) and the mapping of the
\* receipt (lines 480-492); outcome is what the chain does with the transaction
client_wait(t, outcome) ==
    /\ cpc[t] = "sent"
    /\ client_result' = [client_result EXCEPT ![t] = WaitResult(outcome)]
    /\ IF outcome = "timeout"
       THEN UNCHANGED <<sent, tx_count>>
       ELSE /\ sent' = [sent EXCEPT ![ctx[t].idx].receipt = outcome]
            /\ tx_count' = [tx_count EXCEPT ![ctx[t].sender] = @ + 1]
    /\ cpc' = [cpc EXCEPT ![t] = "idle"]
    /\ ctx' = [ctx EXCEPT ![t] = NoTx]
    /\ UNCHANGED private_key
    /\ UNCHANGED dbvars
    /\ UNCHANGED reqvars
    /\ UNCHANGED <<threads, conv, built>>

\* self.chain_id = chain_id or int(os.getenv("CHAIN_ID", "1"))
ChainId == 1

\* gas limits and gas estimates; gas_limit 0 is a call without gas_limit
\* (None), which "if gas_limit:" treats as it treats 0
GasValues == 1..MaxGas
GasLimits == {0} \cup GasValues

\* a build that estimates first and takes the caller's limit when the
\* estimation fails
GasOfEstimateFirst(gas_limit, estimate) ==
    IF estimate # RpcFail THEN estimate ELSE gas_limit

\* tx["gas"] (lines 461-464): the caller's limit when there is one, the
\* node's estimate otherwise
GasOf(gas_limit, estimate) ==
    IF gas_limit # 0 THEN gas_limit ELSE estimate

\* _build_transaction (lines 441-466); rpc_ok is whether
\* eth_getTransactionCount answers, estimate what eth_estimateGas returns
\* when it is called
build_transaction(t, from_address, to_address, gas_limit, rpc_ok, estimate) ==
    /\ cpc[t] = "idle"
    /\ LET call == [NoBuild EXCEPT !.from = from_address, !.to = to_address,
                                   !.gas_limit = gas_limit]
           gas == GasOf(gas_limit, estimate)
       IN built' = [built EXCEPT ![t] =
                   IF ~rpc_ok \/ gas = RpcFail
                   THEN [call EXCEPT !.raised = "RpcError"]
                   ELSE [call EXCEPT !.raised = "returned", !.chainId = ChainId,
                                     !.nonce = tx_count[from_address], !.gas = gas]]
    /\ UNCHANGED <<dbvars, reqvars, chainvars, threads, conv>>

\* the client on a chain where each sender has zero or one transaction mined
InitBuild ==
    /\ InitDb
    /\ InitIdle
    /\ private_key = TRUE
    /\ tx_count \in [UserAddrs -> {0, 1}]
    /\ sent = <<>>
    /\ cpc = [t \in Callers |-> "idle"]
    /\ ctx = [t \in Callers |-> NoTx]
    /\ client_result = [t \in Callers |-> "none"]

NextBuild ==
    \E t \in Callers, from_address \in UserAddrs, to_address \in {"none", "va"},
       gas_limit \in GasLimits, rpc_ok \in BOOLEAN, estimate \in GasValues \cup {RpcFail} :
       build_transaction(t, from_address, to_address, gas_limit, rpc_ok, estimate)

SpecBuild == InitBuild /\ [][NextBuild]_vars

\* ---------------------------------------------------------------------------
\* The routes of vault.py, one request at a time.  A request that fails the
\* validation of its body (amount gt=0) or names a row that does not exist is
\* answered 422, 404 or 409 before anything is read or written: those
\* requests are the guards of the actions.
\* ---------------------------------------------------------------------------
Next ==
    \/ \E address \in VaultAddrs : create_vault(address)
    \/ \E vault_id \in VaultIdInputs, user_address \in UserAddrs, amount \in Amounts :
          deposit_start(vault_id, user_address, amount)
    \/ deposit_record
    \/ deposit_apply
    \/ \E vault_id \in VaultIdInputs, user_address \in UserAddrs, balance_wei \in ReadResults :
          get_user_balance(vault_id, user_address, balance_wei)
    \/ \E vault_id \in VaultIdInputs, user_address \in UserAddrs, amount \in Amounts,
          instant \in BOOLEAN, balance_wei \in ReadResults, vault_balance_wei \in ReadResults :
          withdraw(vault_id, user_address, amount, instant, balance_wei, vault_balance_wei)
    \/ \E vault_id \in VaultIdInputs, withdrawal_id \in WithdrawalIdInputs :
          process_withdrawal(vault_id, withdrawal_id)

Spec == Init /\ [][Next]_vars

\* ---------------------------------------------------------------------------
\* The routes of protocol.py, with the deposits and withdrawals that fund them
\* ---------------------------------------------------------------------------
NextProtocol ==
    \/ \E address \in VaultAddrs : create_vault(address)
    \/ \E vault_id \in VaultIdInputs, user_address \in UserAddrs, amount \in Amounts :
          deposit_start(vault_id, user_address, amount)
    \/ deposit_record
    \/ deposit_apply
    \/ \E vault_id \in VaultIdInputs, user_address \in UserAddrs, amount \in Amounts,
          instant \in BOOLEAN, balance_wei \in ReadResults, vault_balance_wei \in ReadResults :
          withdraw(vault_id, user_address, amount, instant, balance_wei, vault_balance_wei)
    \/ \E vault_id \in VaultIdInputs, address \in ProtocolAddrs :
          create_protocol(vault_id, address)
    \/ \E protocol_id \in ProtocolIdInputs, is_active \in BOOLEAN :
          update_protocol(protocol_id, is_active)
    \/ \E protocol_id \in ProtocolIdInputs : delete_protocol(protocol_id)
    \/ \E protocol_id \in ProtocolIdInputs, amount \in Amounts :
          allocate_to_protocol(protocol_id, amount)
    \/ \E protocol_id \in ProtocolIdInputs, amount \in Amounts :
          deallocate_from_protocol(protocol_id, amount)

SpecProtocol == Init /\ [][NextProtocol]_vars

\* ---------------------------------------------------------------------------
\* The write operations of BlockchainClient, called concurrently; the client
\* is constructed with or without PRIVATE_KEY
\* ---------------------------------------------------------------------------
InitPipeline == InitDb /\ InitChain /\ InitIdle /\ private_key \in BOOLEAN

NextPipeline ==
    \/ \E t \in Callers, fn \in WriteOps, sender \in UserAddrs, rpc_ok \in BOOLEAN :
          client_build(t, fn, sender, rpc_ok)
    \/ \E t \in Callers, rpc_ok \in BOOLEAN : client_sign_and_send(t, rpc_ok)
    \/ \E t \in Callers, outcome \in {"success", "reverted", "timeout"} :
          client_wait(t, outcome)

SpecPipeline == InitPipeline /\ [][NextPipeline]_vars

\* ---------------------------------------------------------------------------
\* routes/mobile.py and the handlers of vault.py that read the chain
\* ---------------------------------------------------------------------------
\* mobile_wallet_info (lines 123-190): usdc_wei is what get_token_balance
\* returns for the wallet; the response field usdc_balance is resp.new_balance.
\* The vault balances of the response are the stored rows, which the handler
\* only reads.
mobile_wallet_info(address, usdc_wei) ==
    /\ pc = "idle"
    /\ Len(vaults) = 0 => usdc_wei = 0
    /\ LET user_id == IF UserId(address) = 0 THEN Len(users) + 1 ELSE UserId(address)
           usdc_balance == IF Len(vaults) = 0 \/ usdc_wei = RpcFail THEN 0
                           ELSE wei_to_decimal(usdc_wei)
       IN /\ users' = IF UserId(address) = 0 THEN Append(users, address) ELSE users
          /\ resp' = [Response("mobile_wallet_info", 200, "") EXCEPT
                        !.user_id = user_id,
                        !.new_balance = usdc_balance,
                        !.chain = IF Len(vaults) = 0 THEN "none"
                                  ELSE IF usdc_wei = RpcFail THEN "failed" ELSE "ok"]
    /\ UNCHANGED <<vaults, protocols, vault_users, transactions, withdrawals, now, pc, cur>>
    /\ UNCHANGED chainvars
    /\ UNCHANGED <<threads, conv, built>>

NextReads ==
    \/ \E address \in VaultAddrs : create_vault(address)
    \/ \E vault_id \in VaultIdInputs, user_address \in UserAddrs, amount \in Amounts :
          deposit_start(vault_id, user_address, amount)
    \/ deposit_record
    \/ deposit_apply
    \/ \E vault_id \in VaultIdInputs, user_address \in UserAddrs, balance_wei \in ReadResults :
          get_user_balance(vault_id, user_address, balance_wei)
    \/ \E address \in UserAddrs, usdc_wei \in ReadResults :
          mobile_wallet_info(address, usdc_wei)
    \/ \E vault_id \in VaultIdInputs, user_address \in UserAddrs, amount \in Amounts,
          instant \in BOOLEAN, balance_wei \in ReadResults, vault_balance_wei \in ReadResults :
          withdraw(vault_id, user_address, amount, instant, balance_wei, vault_balance_wei)

SpecReads == Init /\ [][NextReads]_vars

\* ---------------------------------------------------------------------------
\* routes/vault.py: reading, updating and deleting a vault
\* ---------------------------------------------------------------------------
\* VaultDetail(**vault.__dict__, protocols=protocols, user_count=user_count)
\* (lines 93-105), as the body of a 200 response; protocols are the ids of
\* the rows returned
VaultDetail(vault_id) ==
    [op |-> "get_vault", code |-> 200, detail |-> "", id |-> vault_id, user_id |-> 0,
     amount |-> 0, new_balance |-> 0, status |-> "", chain |-> "none",
     address |-> vaults[vault_id].address,
     total_deposits |-> vaults[vault_id].total_deposits,
     total_allocated |-> vaults[vault_id].total_allocated,
     total_yield |-> vaults[vault_id].total_yield,
     tvl |-> vaults[vault_id].tvl,
     is_active |-> vaults[vault_id].is_active,
     protocols |-> {i \in 1..Len(protocols) : protocols[i].vault_id = vault_id},
     user_count |-> Cardinality({k \in DOMAIN vault_users : k[1] = vault_id})]

\* get_vault (lines 80-105)
get_vault(vault_id) ==
    /\ pc = "idle"
    /\ resp' = IF ~VaultExists(vault_id)
               THEN [Response("get_vault", 404, "Vault not found") EXCEPT !.id = vault_id]
               ELSE VaultDetail(vault_id)
    /\ UNCHANGED <<vaults, protocols, users, vault_users, transactions, withdrawals, now,
                   pc, cur>>
    /\ UNCHANGED chainvars
    /\ UNCHANGED <<threads, conv, built>>

\* update_vault (lines 131-152) with is_active set in the body; the
\* aggregates and the address are not fields of VaultUpdate
update_vault(vault_id, is_active) ==
    /\ pc = "idle"
    /\ VaultExists(vault_id)
    /\ vaults' = [vaults EXCEPT ![vault_id].is_active = is_active]
    /\ resp' = [Response("update_vault", 200, "") EXCEPT !.id = vault_id]
    /\ UNCHANGED <<protocols, users, vault_users, transactions, withdrawals, now, pc, cur>>
    /\ UNCHANGED chainvars
    /\ UNCHANGED <<threads, conv, built>>

\* a delete that also clears what the vault holds
DeleteVaultRowClearsTvl(vault) == [vault EXCEPT !.is_active = FALSE, !.tvl = 0]

\* the soft delete of delete_vault (line 168)
DeleteVaultRow(vault) == [vault EXCEPT !.is_active = FALSE]

\* delete_vault (lines 155-169)
delete_vault(vault_id) ==
    /\ pc = "idle"
    /\ VaultExists(vault_id)
    /\ vaults' = [vaults EXCEPT ![vault_id] = DeleteVaultRow(@)]
    /\ resp' = [Response("delete_vault", 204, "") EXCEPT !.id = vault_id]
    /\ UNCHANGED <<protocols, users, vault_users, transactions, withdrawals, now, pc, cur>>
    /\ UNCHANGED chainvars
    /\ UNCHANGED <<threads, conv, built>>

\* the vault routes with the deposits, withdrawals and protocols that fill a
\* vault
NextVaults ==
    \/ \E address \in VaultAddrs : create_vault(address)
    \/ \E vault_id \in VaultIdInputs, user_address \in UserAddrs, amount \in Amounts :
          deposit_start(vault_id, user_address, amount)
    \/ deposit_record
    \/ deposit_apply
    \/ \E vault_id \in VaultIdInputs, user_address \in UserAddrs, amount \in Amounts,
          instant \in BOOLEAN, balance_wei \in ReadResults, vault_balance_wei \in ReadResults :
          withdraw(vault_id, user_address, amount, instant, balance_wei, vault_balance_wei)
    \/ \E vault_id \in VaultIdInputs, address \in ProtocolAddrs :
          create_protocol(vault_id, address)
    \/ \E vault_id \in VaultIdInputs : get_vault(vault_id)
    \/ \E vault_id \in VaultIdInputs, is_active \in BOOLEAN : update_vault(vault_id, is_active)
    \/ \E vault_id \in VaultIdInputs : delete_vault(vault_id)

SpecVaults == Init /\ [][NextVaults]_vars

\* ---------------------------------------------------------------------------
\* The unit conversions of blockchain.py, applied to amounts of up to
\* MaxDigits digits
\* ---------------------------------------------------------------------------
\* coefficients 1 0...0 d and 9 9...9 d
Coefficients ==
    {<<d>> : d \in 0..9} \cup
    {<<f>> \o [i \in 1..(n - 2) |-> IF f = 1 THEN 0 ELSE 9] \o <<d>> :
        f \in {1, 9}, n \in 2..MaxDigits, d \in 0..9}

\* Decimal amounts with up to decimals + ExtraDigits fractional digits; the
\* amounts with exponent 0 are the integers
DecimalInputs ==
    {[digits |-> c, exp |-> -e] : c \in Coefficients, e \in 0..(Decimals + ExtraDigits)}

InitConvert ==
    /\ InitDb
    /\ InitChain
    /\ private_key = TRUE
    /\ threads = [t \in Callers |-> NoRequest]
    /\ built = [t \in Callers |-> NoBuild]
    /\ conv \in {[NoConv EXCEPT !.arg = x] : x \in DecimalInputs}

\* to_wei(amount); the function has no raise statement
to_wei_call ==
    /\ conv.fn = "none"
    /\ conv' = [conv EXCEPT !.fn = "to_wei", !.out = to_wei_digits(conv.arg)]
    /\ UNCHANGED <<dbvars, reqvars, chainvars, threads, built>>

\* from_wei(amount), amount an integer
from_wei_call ==
    /\ conv.fn = "none"
    /\ conv.arg.exp = 0
    /\ conv' = [conv EXCEPT !.fn = "from_wei", !.out = from_wei_digits(conv.arg)]
    /\ UNCHANGED <<dbvars, reqvars, chainvars, threads, built>>

\* from_wei(to_wei(amount))
from_wei_of_result ==
    /\ conv.fn = "to_wei"
    /\ conv' = [conv EXCEPT !.fn = "to_wei;from_wei", !.out = from_wei_digits(conv.out)]
    /\ UNCHANGED <<dbvars, reqvars, chainvars, threads, built>>

\* to_wei(from_wei(amount))
to_wei_of_result ==
    /\ conv.fn = "from_wei"
    /\ conv' = [conv EXCEPT !.fn = "from_wei;to_wei", !.out = to_wei_digits(conv.out)]
    /\ UNCHANGED <<dbvars, reqvars, chainvars, threads, built>>

NextConvert ==
    \/ to_wei_call
    \/ from_wei_call
    \/ from_wei_of_result
    \/ to_wei_of_result

SpecConvert == InitConvert /\ [][NextConvert]_vars

\* ---------------------------------------------------------------------------
\* Overlapping ledger requests.  The handlers are plain "def" routes, which
\* FastAPI runs on worker threads, each with its own Session (get_db); no
\* handler locks a row.  A handler loads the rows it works on, checks its
\* precondition and computes the new values in Python from what it loaded;
\* its commit writes the changed columns with those values.
\* ---------------------------------------------------------------------------
LedgerOps == {"deposit", "withdraw", "allocate", "deallocate"}

\* the database after create_vault, one deposit of one token and
\* create_protocol, all handled one after the other
InitConcurrent ==
    /\ vaults = <<DepositLedger(NewVault("va"), One)>>
    /\ protocols = <<NewProtocol(1, "pa")>>
    /\ users = <<"u1">>
    /\ vault_users = (<<1, 1>> :> One)
    /\ transactions = <<[NewTransaction(1, 1, "deposit", "completed", One)
                            EXCEPT !.tx_hash = "mock"]>>
    /\ withdrawals = <<>>
    /\ now = 1
    /\ pc = "idle"
    /\ cur = NoCur
    /\ resp = [Response("create_protocol", 201, "") EXCEPT !.id = 1]
    /\ InitChain
    /\ InitIdle
    /\ private_key = TRUE

\* a handler up to the point where it has loaded its rows and checked its
\* precondition: deposit (lines 273-319, with the commit of the pending
\* Transaction), withdraw with instant = false (lines 357-382),
\* allocate_to_protocol (lines 149-175), deallocate_from_protocol (lines
\* 212-225).  The requests name rows that exist.
request_read(t, op, vault_id, user_address, protocol_id, amount) ==
    /\ threads[t].pc = "idle"
    /\ amount > 0
    /\ VaultExists(vault_id)
    /\ UserId(user_address) # 0
    /\ ProtocolExists(protocol_id)
    /\ protocols[protocol_id].vault_id = vault_id
    /\ LET user_id == UserId(user_address)
           has_row == HasVaultUser(vault_id, user_id)
           loaded == [NoRequest EXCEPT
                        !.op = op, !.amount = amount, !.vault_id = vault_id,
                        !.user_id = user_id, !.protocol_id = protocol_id,
                        !.total_deposits = vaults[vault_id].total_deposits,
                        !.tvl = vaults[vault_id].tvl,
                        !.total_allocated = vaults[vault_id].total_allocated,
                        !.has_row = has_row,
                        !.balance = IF has_row THEN vault_users[<<vault_id, user_id>>] ELSE 0,
                        !.allocated_amount = protocols[protocol_id].allocated_amount]
           rejected ==
              CASE op = "deposit" -> FALSE
                [] op = "withdraw" -> InsufficientBalance(vault_id, user_id, amount)
                [] op = "allocate" -> \/ ~protocols[protocol_id].is_active
                                      \/ InsufficientLiquidity(vaults[vault_id], amount)
                [] op = "deallocate" -> protocols[protocol_id].allocated_amount < amount
       IN /\ threads' = [threads EXCEPT ![t] =
                 IF rejected THEN [loaded EXCEPT !.pc = "done", !.code = 400]
                 ELSE [loaded EXCEPT !.pc = "loaded",
                          !.tx_id = IF op = "deposit" THEN Len(transactions) + 1 ELSE 0]]
          /\ transactions' =
                 IF op = "deposit"
                 THEN Append(transactions,
                         NewTransaction(vault_id, user_id, "deposit", "pending", amount))
                 ELSE transactions
    /\ UNCHANGED <<vaults, protocols, users, vault_users, withdrawals, now>>
    /\ UNCHANGED reqvars
    /\ UNCHANGED chainvars
    /\ UNCHANGED <<conv, built>>

\* the rest of the handler: the assignments computed from the loaded rows and
\* the commit that writes them (deposit lines 316-327, withdraw lines 434-446,
\* allocate_to_protocol lines 178-192, deallocate_from_protocol lines 228-242)
request_commit(t) ==
    /\ threads[t].pc = "loaded"
    /\ LET r == threads[t]
           key == <<r.vault_id, r.user_id>>
           row == [NewVault("") EXCEPT !.total_deposits = r.total_deposits,
                      !.tvl = r.tvl, !.total_allocated = r.total_allocated]
       IN CASE r.op = "deposit" ->
                 /\ vault_users' = (key :> (r.balance + r.amount)) @@ vault_users
                 /\ vaults' = [vaults EXCEPT
                       ![r.vault_id].total_deposits = DepositLedger(row, r.amount).total_deposits,
                       ![r.vault_id].tvl = DepositLedger(row, r.amount).tvl]
                 /\ transactions' = [transactions EXCEPT ![r.tx_id].status = "completed",
                                                         ![r.tx_id].tx_hash = "mock"]
                 /\ UNCHANGED <<protocols, withdrawals>>
            [] r.op = "withdraw" ->
                 /\ withdrawals' = Append(withdrawals,
                        NewWithdrawalRequest(r.vault_id, r.user_id, r.amount))
                 /\ vault_users' = [vault_users EXCEPT ![key] = r.balance - r.amount]
                 /\ vaults' = [vaults EXCEPT
                       ![r.vault_id].total_deposits =
                           QueuedWithdrawLedger(row, r.amount).total_deposits]
                 /\ UNCHANGED <<protocols, transactions>>
            [] r.op = "allocate" ->
                 /\ transactions' = Append(transactions,
                        NewTransaction(r.vault_id, 0, "allocate", "completed", r.amount))
                 /\ protocols' = [protocols EXCEPT
                       ![r.protocol_id].allocated_amount = r.allocated_amount + r.amount]
                 /\ vaults' = [vaults EXCEPT
                       ![r.vault_id].total_allocated = r.total_allocated + r.amount]
                 /\ UNCHANGED <<vault_users, withdrawals>>
            [] r.op = "deallocate" ->
                 /\ transactions' = Append(transactions,
                        NewTransaction(r.vault_id, 0, "deallocate", "completed", r.amount))
                 /\ protocols' = [protocols EXCEPT
                       ![r.protocol_id].allocated_amount = r.allocated_amount - r.amount]
                 /\ vaults' = [vaults EXCEPT
                       ![r.vault_id].total_allocated =
                           DeallocateVault(row, r.amount).total_allocated]
                 /\ UNCHANGED <<vault_users, withdrawals>>
    /\ threads' = [threads EXCEPT ![t].pc = "done", ![t].code = 200]
    /\ UNCHANGED <<users, now>>
    /\ UNCHANGED reqvars
    /\ UNCHANGED chainvars
    /\ UNCHANGED <<conv, built>>

NextConcurrent ==
    \/ \E t \in Callers, op \in LedgerOps, vault_id \in VaultIdInputs,
          user_address \in UserAddrs, protocol_id \in ProtocolIdInputs, amount \in Amounts :
          request_read(t, op, vault_id, user_address, protocol_id, amount)
    \/ \E t \in Callers : request_commit(t)

SpecConcurrent == InitConcurrent /\ [][NextConcurrent]_vars

\* ---------------------------------------------------------------------------
\* Properties
\* ---------------------------------------------------------------------------
RECURSIVE SumOver(_, _)
SumOver(f, S) ==
    IF S = {} THEN 0
    ELSE LET x == CHOOSE y \in S : TRUE IN f[x] + SumOver(f, S \ {x})

\* sum(VaultUser.balance) of a vault
UserBalanceSum(vault_id) ==
    SumOver(vault_users, {k \in DOMAIN vault_users : k[1] = vault_id})

\* sum(Protocol.allocated_amount) over the active protocols of a vault
ActiveAllocatedSum(vault_id) ==
    SumOver([i \in 1..Len(protocols) |-> protocols[i].allocated_amount],
            {i \in 1..Len(protocols) :
                protocols[i].vault_id = vault_id /\ protocols[i].is_active})

\* a step changes a ledger field of an existing row, or adds a balance row
LedgerChanged ==
    \/ \E v \in 1..Len(vaults) :
          \/ vaults'[v].total_deposits # vaults[v].total_deposits
          \/ vaults'[v].tvl # vaults[v].tvl
          \/ vaults'[v].total_allocated # vaults[v].total_allocated
    \/ \E i \in 1..Len(protocols) :
          protocols'[i].allocated_amount # protocols[i].allocated_amount
    \/ \E k \in DOMAIN vault_users' :
          k \notin DOMAIN vault_users \/ vault_users'[k] # vault_users[k]

\* C1: in every committed state, for every vault the sum of its VaultUser
\* balances is at most the vault's total_deposits.
C1_Conservation ==
    \A v \in 1..Len(vaults) : UserBalanceSum(v) <= vaults[v].total_deposits

\* C2: for every vault, total_allocated equals the sum of allocated_amount
\* over the vault's protocols whose is_active is true.
C2_AllocationEquality ==
    \A v \in 1..Len(vaults) : vaults[v].total_allocated = ActiveAllocatedSum(v)

\* C3: for every vault, total_allocated <= total_deposits after any sequence
\* of deposit, withdraw, allocate and deallocate calls.
C3_AllocationBound ==
    \A v \in 1..Len(vaults) : vaults[v].total_allocated <= vaults[v].total_deposits

\* C4: a WithdrawalRequest whose status becomes processed had status ready in
\* the state immediately before.
C4_ProcessedOnlyFromReady ==
    [][\A w \in 1..Len(withdrawals) :
          (withdrawals'[w].status = "processed" /\ withdrawals[w].status # "processed")
             => withdrawals[w].status = "ready"]_vars

\* C5: process_withdrawal called on a request that is not in ready state is
\* rejected with an error and changes no field of the request, of a vault or
\* of a balance.
C5_ProcessNotReadyRejected ==
    [][\A w \in 1..Len(withdrawals) :
          (resp'.op = "process_withdrawal" /\ resp'.id = w
             /\ withdrawals[w].status # "ready")
             => /\ resp'.code >= 400
                /\ withdrawals' = withdrawals
                /\ vaults' = vaults
                /\ vault_users' = vault_users]_vars

\* C6: a deposit, withdraw, allocate or deallocate changes the ledger only
\* after a transaction was broadcast through the pipeline and its receipt
\* reported success.
C6_LedgerOnlyAfterReceipt ==
    [][(resp'.op \in {"deposit", "withdraw", "allocate", "deallocate"} /\ LedgerChanged)
          => \E i \in 1..Len(sent) : sent[i].receipt = "success"]_vars

\* C7: when the wait for the receipt of a broadcast transaction times out,
\* the caller gets TransactionFailedError, the Transaction record of the
\* operation is left in status processing, and no ledger field is changed.
C7_TimeoutLeavesProcessing ==
    [][\A t \in Callers :
          (cpc[t] = "sent" /\ cpc'[t] = "idle" /\ sent'[ctx[t].idx].receipt = "none")
             => /\ client_result'[t] = "TransactionFailedError"
                /\ \E i \in 1..Len(transactions') : transactions'[i].status = "processing"
                /\ vaults' = vaults
                /\ vault_users' = vault_users
                /\ protocols' = protocols]_vars

\* C8: a queued withdraw of amount a <= balance creates a request in status
\* queued and reduces the user's balance by a, while total_deposits and tvl of
\* the vault stay as they were.
C8_QueuedWithdrawDefersTotal ==
    [][(resp'.op = "withdraw" /\ resp'.code = 200 /\ resp'.status = "queued")
          => LET v == resp'.id
                 key == <<resp'.id, resp'.user_id>>
             IN /\ Len(withdrawals') = Len(withdrawals) + 1
                /\ withdrawals'[Len(withdrawals')].status = "queued"
                /\ withdrawals'[Len(withdrawals')].amount = resp'.amount
                /\ vault_users'[key] = vault_users[key] - resp'.amount
                /\ vaults'[v].total_deposits = vaults[v].total_deposits
                /\ vaults'[v].tvl = vaults[v].tvl]_vars

\* C9: a successful deposit of amount a > 0 by user u into vault v increases
\* v.total_deposits, v.tvl and u's balance in v by exactly a (creating the user
\* and the balance row when absent), decreases no aggregate, and leaves
\* v.total_allocated, v.total_yield, every other balance and every other vault
\* unchanged.
C9_DepositEffect ==
    [][/\ (pc = "idle" /\ pc' = "deposit_user")
           => /\ cur'.user_id \in 1..Len(users')
              /\ users'[cur'.user_id] = cur'.user_address
              /\ \/ users' = users
                 \/ UserId(cur'.user_address) = 0 /\ users' = Append(users, cur'.user_address)
              /\ vaults' = vaults /\ vault_users' = vault_users /\ protocols' = protocols
       /\ (pc = "deposit_user" /\ pc' = "deposit_tx")
           => vaults' = vaults /\ vault_users' = vault_users /\ protocols' = protocols
       /\ (pc = "deposit_tx" /\ pc' = "idle")
           => LET v == cur.vault_id
                  a == cur.amount
                  key == <<cur.vault_id, cur.user_id>>
              IN /\ a > 0
                 /\ users[cur.user_id] = cur.user_address
                 /\ resp'.code = 200
                 /\ vaults'[v].total_deposits = vaults[v].total_deposits + a
                 /\ vaults'[v].tvl = vaults[v].tvl + a
                 /\ vaults'[v].total_allocated = vaults[v].total_allocated
                 /\ vaults'[v].total_yield = vaults[v].total_yield
                 /\ DOMAIN vault_users' = DOMAIN vault_users \cup {key}
                 /\ vault_users'[key] = IF key \in DOMAIN vault_users
                                        THEN vault_users[key] + a ELSE a
                 /\ resp'.new_balance = vault_users'[key]
                 /\ \A k \in DOMAIN vault_users \ {key} : vault_users'[k] = vault_users[k]
                 /\ Len(vaults') = Len(vaults)
                 /\ \A w \in (1..Len(vaults)) \ {v} : vaults'[w] = vaults[w]
                 /\ protocols' = protocols
                 /\ users' = users]_vars

\* a deposit went through in a vault that has funds allocated to a protocol,
\* next to another vault, for a user whose balance row existed
C9_Witness ==
    /\ resp.op = "deposit" /\ resp.code = 200
    /\ resp.new_balance > resp.amount
    /\ Len(vaults) = 2
    /\ vaults[resp.id].total_allocated > 0

\* C10: an instant withdraw of amount a, with a <= the user's balance and the
\* vault's on-chain asset balance >= a in minor units, succeeds: balance,
\* total_deposits and tvl each decrease by exactly a, the returned new_balance
\* is the old balance minus a, and a completed withdraw Transaction is recorded.
C10_InstantWithdrawEffect ==
    [][\A v \in VaultIdInputs, address \in UserAddrs, a \in Amounts,
          vault_balance_wei \in ChainValues :
          (/\ resp'.op = "withdraw"
           /\ withdraw(v, address, a, TRUE, 0, vault_balance_wei)
           /\ HasVaultUser(v, UserId(address))
           /\ a <= vault_users[<<v, UserId(address)>>]
           /\ a <= from_wei(vault_balance_wei))
          => LET key == <<v, UserId(address)>>
             IN /\ resp'.code = 200 /\ resp'.status = "completed"
                /\ resp'.new_balance = vault_users[key] - a
                /\ vault_users'[key] = vault_users[key] - a
                /\ vaults'[v].total_deposits = vaults[v].total_deposits - a
                /\ vaults'[v].tvl = vaults[v].tvl - a
                /\ transactions' = Append(transactions,
                       NewTransaction(v, UserId(address), "withdraw", "completed", a))]_vars

\* an instant withdrawal of a part of the balance went through
C10_Witness ==
    /\ resp.op = "withdraw" /\ resp.code = 200 /\ resp.status = "completed"
    /\ resp.new_balance > 0
    /\ \E i \in 1..Len(transactions) :
          transactions[i].tx_type = "withdraw" /\ transactions[i].status = "completed"

\* C11: a withdraw (instant or queued) whose amount exceeds the user's balance
\* in the vault, or whose user has no balance row there, is answered with a
\* client error (4xx) and changes nothing: no balance, no vault aggregate, no
\* Transaction, no WithdrawalRequest, and no chain call is made.
C11_WithdrawInsufficientRejected ==
    [][\A v \in VaultIdInputs, address \in UserAddrs, a \in Amounts, instant \in BOOLEAN :
          (/\ resp'.op = "withdraw"
           /\ \/ ~HasVaultUser(v, UserId(address))
              \/ vault_users[<<v, UserId(address)>>] < a
           /\ \E balance_wei \in ReadResults, vault_balance_wei \in ReadResults :
                 withdraw(v, address, a, instant, balance_wei, vault_balance_wei))
          => /\ resp'.code \in 400..499
             /\ vaults' = vaults
             /\ vault_users' = vault_users
             /\ transactions' = transactions
             /\ withdrawals' = withdrawals
             /\ resp'.chain = "none"
             /\ sent' = sent]_vars

\* the only user asked for more than the balance left in the only vault after
\* an earlier withdrawal emptied it
C11_Witness ==
    /\ resp.op = "withdraw" /\ resp.code = 400 /\ resp.detail = "Insufficient balance"
    /\ Len(vaults) = 1 /\ Len(users) = 1
    /\ HasVaultUser(1, 1)
    /\ vault_users[<<1, 1>>] < One
    /\ vaults[1].total_deposits = 0
    /\ Len(transactions) > 0

\* C12 (as stated): allocate(protocol, amount) with amount greater than
\* vault.total_deposits - vault.total_allocated is rejected with the
\* insufficient-liquidity error and changes no field: allocated_amount and
\* total_allocated are unchanged and no Transaction record is created.
C12_AllocateInsufficientRejected ==
    [][\A p \in ProtocolIdInputs, a \in Amounts :
          (/\ resp'.op = "allocate"
           /\ allocate_to_protocol(p, a)
           /\ a > vaults[protocols[p].vault_id].total_deposits
                    - vaults[protocols[p].vault_id].total_allocated)
          => /\ resp'.code = 400
             /\ resp'.detail = "Insufficient vault liquidity"
             /\ protocols' = protocols
             /\ vaults' = vaults
             /\ transactions' = transactions]_vars

\* C12 (amended): the same for a protocol whose is_active is true; on an
\* inactive protocol the call is rejected as well and changes nothing, but
\* with the error "Protocol is not active".
C12_AllocateInsufficientRejectedActive ==
    [][\A p \in ProtocolIdInputs, a \in Amounts :
          (/\ resp'.op = "allocate"
           /\ allocate_to_protocol(p, a)
           /\ a > vaults[protocols[p].vault_id].total_deposits
                    - vaults[protocols[p].vault_id].total_allocated)
          => /\ resp'.code = 400
             /\ resp'.detail = IF protocols[p].is_active
                               THEN "Insufficient vault liquidity"
                               ELSE "Protocol is not active"
             /\ protocols' = protocols
             /\ vaults' = vaults
             /\ transactions' = transactions]_vars

\* an allocation to an active protocol was refused while the whole of the
\* vault's deposits were already allocated
C12_Witness ==
    /\ resp.op = "allocate" /\ resp.code = 400
    /\ resp.detail = "Insufficient vault liquidity"
    /\ protocols[resp.id].is_active
    /\ vaults[protocols[resp.id].vault_id].total_deposits > 0
    /\ vaults[protocols[resp.id].vault_id].total_allocated
          = vaults[protocols[resp.id].vault_id].total_deposits

\* C13: a successful allocate of amount a increases protocol.allocated_amount
\* and vault.total_allocated by exactly a; a successful deallocate, which
\* requires allocated_amount >= a, decreases both by exactly a; in every
\* step the change of a vault's total_allocated is the sum of the changes of
\* its protocols' allocated_amount (both fields move or neither does); and
\* allocate(a) followed by deallocate(a) restores both fields.
C13_AllocateDeallocateEffect ==
    [][/\ \A p \in ProtocolIdInputs, a \in Amounts :
             (resp'.op = "allocate" /\ resp'.code = 200 /\ allocate_to_protocol(p, a))
             => /\ protocols'[p].allocated_amount = protocols[p].allocated_amount + a
                /\ vaults'[protocols[p].vault_id].total_allocated
                      = vaults[protocols[p].vault_id].total_allocated + a
       /\ \A p \in ProtocolIdInputs, a \in Amounts :
             (resp'.op = "deallocate" /\ deallocate_from_protocol(p, a))
             => IF protocols[p].allocated_amount >= a
                THEN /\ resp'.code = 200
                     /\ protocols'[p].allocated_amount = protocols[p].allocated_amount - a
                     /\ vaults'[protocols[p].vault_id].total_allocated
                           = vaults[protocols[p].vault_id].total_allocated - a
                     /\ (resp.op = "allocate" /\ resp.code = 200 /\ resp.id = p
                            /\ resp.amount = a)
                         => protocols'[p].allocated_amount = resp.new_balance - resp.amount
                ELSE /\ resp'.code = 400
                     /\ protocols' = protocols /\ vaults' = vaults
       /\ \A v \in 1..Len(vaults) :
             vaults'[v].total_allocated - vaults[v].total_allocated
                = SumOver([i \in 1..Len(protocols) |->
                              protocols'[i].allocated_amount - protocols[i].allocated_amount],
                          {i \in 1..Len(protocols) : protocols[i].vault_id = v})]_vars

\* an allocation was followed by the deallocation of the same amount, which
\* brought the protocol and its funded vault back to nothing allocated
C13_Witness ==
    /\ resp.op = "deallocate" /\ resp.code = 200
    /\ protocols[resp.id].allocated_amount = 0
    /\ vaults[protocols[resp.id].vault_id].total_allocated = 0
    /\ vaults[protocols[resp.id].vault_id].total_deposits > 0
    /\ \E i \in 1..Len(transactions) :
          transactions[i].tx_type = "allocate" /\ transactions[i].status = "completed"
    /\ \E i \in 1..Len(transactions) :
          transactions[i].tx_type = "deallocate" /\ transactions[i].status = "completed"

\* C14: for any interleaving of concurrent write operations for the same
\* sender, no two transactions in flight are built with the same nonce, and
\* the nonces of the broadcast transactions of a sender are pairwise distinct,
\* strictly increasing and without gap.
C14_NonceSequencing ==
    /\ \A t1 \in Callers, t2 \in Callers :
          (/\ t1 # t2
           /\ cpc[t1] \in {"built", "sent"} /\ cpc[t2] \in {"built", "sent"}
           /\ ctx[t1].sender = ctx[t2].sender)
          => ctx[t1].nonce # ctx[t2].nonce
    /\ \A i \in 1..Len(sent) :
          sent[i].nonce = Cardinality({j \in 1..(i - 1) : sent[j].sender = sent[i].sender})

\* the ledger of vault 1, user 1 and protocol 1, with the number of
\* Transaction and WithdrawalRequest rows
LedgerOf ==
    [total_deposits |-> vaults[1].total_deposits,
     tvl |-> vaults[1].tvl,
     total_allocated |-> vaults[1].total_allocated,
     balance |-> vault_users[<<1, 1>>],
     allocated_amount |-> protocols[1].allocated_amount,
     n_transactions |-> Len(transactions),
     n_withdrawals |-> Len(withdrawals)]

\* the ledger of InitConcurrent
InitLedger ==
    [total_deposits |-> One, tvl |-> One, total_allocated |-> 0, balance |-> One,
     allocated_amount |-> 0, n_transactions |-> 1, n_withdrawals |-> 0]

\* the ledger after a request handled alone on ledger L (the protocol stays
\* active)
SerialStep(L, op, amount) ==
    CASE op = "deposit" ->
            [L EXCEPT !.total_deposits = @ + amount, !.tvl = @ + amount,
                      !.balance = @ + amount, !.n_transactions = @ + 1]
      [] op = "withdraw" ->
            IF L.balance < amount THEN L
            ELSE [L EXCEPT !.balance = @ - amount, !.total_deposits = @ - amount,
                           !.n_withdrawals = @ + 1]
      [] op = "allocate" ->
            IF L.total_deposits - L.total_allocated < amount THEN L
            ELSE [L EXCEPT !.allocated_amount = @ + amount, !.total_allocated = @ + amount,
                           !.n_transactions = @ + 1]
      [] op = "deallocate" ->
            IF L.allocated_amount < amount THEN L
            ELSE [L EXCEPT !.allocated_amount = @ - amount, !.total_allocated = @ - amount,
                           !.n_transactions = @ + 1]

\* C15: for any interleaving of two overlapping ledger requests on the same
\* vault, the final ledger is the one produced by handling the two requests
\* in some serial order.
C15_SerialEquivalence ==
    (\A t \in Callers : threads[t].pc = "done")
    => \E t1 \in Callers, t2 \in Callers :
          /\ t1 # t2
          /\ LedgerOf = SerialStep(SerialStep(InitLedger, threads[t1].op, threads[t1].amount),
                                   threads[t2].op, threads[t2].amount)

\* C16: when the chain read of get_user_balance, mobile_wallet_info or the
\* instant-withdraw liquidity check fails, the operation stores nothing and
\* reports an error or the off-chain value (the stored balance, 0 when the
\* user has no balance row), never a balance of 0 put in place of the value
\* that could not be read.
C16_FailedReadNotZero ==
    [][resp'.chain = "failed"
          => /\ vault_users' = vault_users
             /\ \/ resp'.code >= 400
                \/ /\ resp'.op = "get_user_balance"
                   /\ resp'.new_balance =
                         IF HasVaultUser(resp'.id, resp'.user_id)
                         THEN vault_users[<<resp'.id, resp'.user_id>>] ELSE 0]_vars

\* C17: for every non-negative amount x with at most `decimals` fractional
\* digits, from_wei(to_wei(x)) equals x, and for every non-negative integer
\* n, to_wei(from_wei(n)) equals n.
C17_RoundTrip ==
    /\ (conv.fn = "to_wei;from_wei" /\ FractionalDigits(conv.arg) <= Decimals)
          => DecimalEq(conv.out, conv.arg)
    /\ conv.fn = "from_wei;to_wei" => DecimalEq(conv.out, conv.arg)

\* C18: converting to minor units an amount that has more than `decimals`
\* fractional digits fails with PrecisionLoss; the conversion never returns a
\* truncated or rounded integer for such an amount.
C18_PrecisionLossRaised ==
    (conv.fn = "to_wei" /\ FractionalDigits(conv.arg) > Decimals)
    => conv.raised = "PrecisionLoss"

\* C19: every Transaction record is created with status pending, and takes a
\* terminal status (completed, failed, cancelled) only after the chain gave a
\* receipt for a broadcast transaction or the pipeline failed; no Transaction
\* is created directly in status completed.
C19_TransactionLifecycle ==
    [][/\ \A i \in (Len(transactions) + 1)..Len(transactions') :
             transactions'[i].status = "pending"
       /\ \A i \in 1..Len(transactions) :
             (/\ transactions'[i].status # transactions[i].status
              /\ transactions'[i].status \in {"completed", "failed", "cancelled"})
             => \/ \E j \in 1..Len(sent) : sent[j].receipt # "none"
                \/ \E t \in Callers :
                      client_result[t] \in {"BlockchainError", "TransactionFailedError",
                                            "RpcError", "NameError"}]_vars

\* C20: when no private key is configured, every write operation of
\* BlockchainClient (with the node answering its reads) ends with
\* BlockchainError at the sign step: nothing is broadcast and the call is over,
\* without another attempt.
C20_NoKeyBlockchainError ==
    [][~private_key
          => /\ sent' = <<>>
             /\ \A t \in Callers :
                   (/\ client_result'[t] # client_result[t]
                    /\ client_result'[t] \notin {"running", "RpcError"})
                   => /\ client_result'[t] = "BlockchainError"
                      /\ cpc[t] = "built"
                      /\ cpc'[t] = "idle"]_vars

\* C21: a single call of a BlockchainClient write operation broadcasts a
\* signed payload at most once, on every path: a step adds at most one entry
\* to the broadcast transactions, only the caller that passes from the sign
\* step to the wait adds it, entries already broadcast are never added again
\* or rewritten by a call that fails or times out, and a call that ends
\* (build failure, broadcast failure, timeout, receipt) broadcasts nothing in
\* its last step.
C21_AtMostOneSubmission ==
    [][/\ Len(sent') \in {Len(sent), Len(sent) + 1}
       /\ \A i \in 1..Len(sent) :
             /\ sent'[i].fn = sent[i].fn
             /\ sent'[i].sender = sent[i].sender
             /\ sent'[i].nonce = sent[i].nonce
       /\ Len(sent') = Len(sent) + 1
             => \E t \in Callers :
                   /\ cpc[t] = "built" /\ cpc'[t] = "sent"
                   /\ ctx'[t].idx = Len(sent')
                   /\ sent'[Len(sent')].fn = ctx[t].fn
                   /\ \A u \in Callers \ {t} : cpc'[u] = cpc[u]
       /\ \A t \in Callers :
             (cpc[t] # cpc'[t] /\ cpc'[t] = "idle") => Len(sent') = Len(sent)
       /\ \A t \in Callers :
             (cpc[t] = "idle" /\ client_result'[t] # client_result[t])
                => Len(sent') = Len(sent)]_vars

\* one call was broadcast and its wait timed out, another call failed at the
\* broadcast: the node got exactly one transaction
C21_Witness ==
    /\ private_key
    /\ client_result[1] = "TransactionFailedError"
    /\ client_result[2] = "RpcError"
    /\ cpc[1] = "idle" /\ cpc[2] = "idle"
    /\ Len(sent) = 1
    /\ sent[1].receipt = "none"

\* C22: every WithdrawalRequest created by a queued withdraw carries the
\* queue_index that the on-chain queue assigned to it: a requestWithdrawal
\* transaction was broadcast and confirmed before the row is created, and no
\* other request of the same vault has the same queue_index.
C22_QueueIndexFromChain ==
    [][\A w \in (Len(withdrawals) + 1)..Len(withdrawals') :
          /\ \E i \in 1..Len(sent) :
                sent[i].fn = "request_withdrawal" /\ sent[i].receipt = "success"
          /\ \A x \in 1..Len(withdrawals) :
                withdrawals[x].vault_id = withdrawals'[w].vault_id
                   => withdrawals[x].queue_index # withdrawals'[w].queue_index]_vars

\* C23: after any sequence of deposit, withdraw, process_withdrawal, allocate,
\* deallocate and get_user_balance calls, every VaultUser.balance, every
\* vault's total_deposits, total_allocated, total_yield and tvl, and every
\* protocol's allocated_amount is >= 0.
C23_NonNegative ==
    /\ \A k \in DOMAIN vault_users : vault_users[k] >= 0
    /\ \A v \in 1..Len(vaults) :
          /\ vaults[v].total_deposits >= 0
          /\ vaults[v].total_allocated >= 0
          /\ vaults[v].total_yield >= 0
          /\ vaults[v].tvl >= 0
    /\ \A i \in 1..Len(protocols) : protocols[i].allocated_amount >= 0

\* C24: after any sequence of deposits and instant or queued withdrawals on a
\* vault created with zero aggregates, tvl = total_deposits + total_yield,
\* hence tvl >= total_deposits.
C24_TvlIdentity ==
    \A v \in 1..Len(vaults) :
       /\ vaults[v].tvl = vaults[v].total_deposits + vaults[v].total_yield
       /\ vaults[v].tvl >= vaults[v].total_deposits

\* C25: a vault is never physically deleted: no step removes a vault row or
\* changes its address; delete_vault answers 204 and only sets is_active of
\* its vault to false, leaving the aggregates of the vault, every other
\* vault, the protocols, the user balances, the transactions and the
\* withdrawal requests unchanged; and get_vault of a vault whose is_active is
\* false still answers 200 with that vault, is_active false and the stored
\* aggregates.
C25_SoftDelete ==
    [][/\ Len(vaults') >= Len(vaults)
       /\ \A v \in 1..Len(vaults) : vaults'[v].address = vaults[v].address
       /\ \A v \in VaultIdInputs :
             (resp'.op = "delete_vault" /\ delete_vault(v))
             => /\ resp'.code = 204
                /\ Len(vaults') = Len(vaults)
                /\ vaults'[v].is_active = FALSE
                /\ vaults'[v].address = vaults[v].address
                /\ vaults'[v].total_deposits = vaults[v].total_deposits
                /\ vaults'[v].total_allocated = vaults[v].total_allocated
                /\ vaults'[v].total_yield = vaults[v].total_yield
                /\ vaults'[v].tvl = vaults[v].tvl
                /\ \A w \in (1..Len(vaults)) \ {v} : vaults'[w] = vaults[w]
                /\ protocols' = protocols
                /\ users' = users
                /\ vault_users' = vault_users
                /\ transactions' = transactions
                /\ withdrawals' = withdrawals
       /\ \A v \in 1..Len(vaults) :
             (resp'.op = "get_vault" /\ get_vault(v) /\ ~vaults[v].is_active)
             => /\ resp'.code = 200
                /\ resp'.id = v
                /\ resp'.is_active = FALSE
                /\ resp'.address = vaults[v].address
                /\ resp'.total_deposits = vaults[v].total_deposits
                /\ resp'.tvl = vaults[v].tvl
                /\ vaults' = vaults]_vars

\* delete_vault has just deactivated a vault that holds a deposit, a
\* protocol and a queued withdrawal request
C25_Witness ==
    /\ resp.op = "delete_vault" /\ resp.code = 204
    /\ ~vaults[resp.id].is_active
    /\ vaults[resp.id].tvl > 0
    /\ \E k \in DOMAIN vault_users : k[1] = resp.id
    /\ \E i \in 1..Len(protocols) : protocols[i].vault_id = resp.id
    /\ \E i \in 1..Len(transactions) : transactions[i].vault_id = resp.id
    /\ \E w \in 1..Len(withdrawals) : withdrawals[w].vault_id = resp.id

\* C26: an instant withdraw within the user's balance for which the vault's
\* on-chain asset balance is smaller than the amount in minor units is
\* answered 400 with "Insufficient vault liquidity for instant withdrawal";
\* when a chain read fails it is answered 500; in both cases no ledger field
\* changes and no Transaction is recorded.
C26_LiquidityRejectionIs400 ==
    [][\A v \in VaultIdInputs, address \in UserAddrs, a \in Amounts,
          balance_wei \in ReadResults, vault_balance_wei \in ReadResults :
          (/\ resp'.op = "withdraw"
           /\ withdraw(v, address, a, TRUE, balance_wei, vault_balance_wei)
           /\ HasVaultUser(v, UserId(address))
           /\ a <= vault_users[<<v, UserId(address)>>])
          => /\ (balance_wei = RpcFail \/ vault_balance_wei = RpcFail)
                   => /\ resp'.code = 500
                      /\ vaults' = vaults /\ vault_users' = vault_users
                      /\ transactions' = transactions
             /\ (balance_wei # RpcFail /\ vault_balance_wei # RpcFail
                    /\ vault_balance_wei < decimal_to_wei(a))
                   => /\ resp'.code = 400
                      /\ resp'.detail = "Insufficient vault liquidity for instant withdrawal"
                      /\ vaults' = vaults /\ vault_users' = vault_users
                      /\ transactions' = transactions]_vars

\* C27: with a configured key and a responsive network, every write operation
\* of BlockchainClient, deposit included, follows the same pipeline: it
\* resolves the sender's nonce from the network, reaches the sign step, is
\* broadcast, and returns a TxReceipt when the chain gives the receipt.
C27_UniformPipeline ==
    [][/\ \A t \in Callers, fn \in WriteOps, sender \in UserAddrs :
             (private_key /\ client_build(t, fn, sender, TRUE))
             => /\ cpc'[t] = "built"
                /\ ctx'[t].fn = fn
                /\ ctx'[t].nonce = tx_count[sender]
       /\ \A t \in Callers :
             (private_key /\ client_sign_and_send(t, TRUE))
             => /\ cpc'[t] = "sent"
                /\ Len(sent') = Len(sent) + 1
                /\ sent'[Len(sent')].fn = ctx[t].fn
       /\ \A t \in Callers, outcome \in {"success", "reverted"} :
             client_wait(t, outcome)
             => client_result'[t] \in {"TxReceipt(status=True)", "TxReceipt(status=False)"}]_vars

\* C28 (as stated): whenever the gas estimation fails, _build_transaction
\* returns a transaction built with the caller-supplied gas limit instead of
\* failing, and the built transaction carries a gas value, the chain id and
\* the sender's nonce.
C28_GasFallback ==
    [][\A t \in Callers :
          (/\ built'[t].from \in UserAddrs
           /\ build_transaction(t, built'[t].from, built'[t].to, built'[t].gas_limit,
                                TRUE, RpcFail))
          => /\ built'[t].raised = "returned"
             /\ built'[t].gas = built'[t].gas_limit
             /\ built'[t].chainId = ChainId
             /\ built'[t].nonce = tx_count[built'[t].from]]_vars

\* C28 (amended): when the caller supplied a gas limit the transaction is
\* built with that limit, whether the node could estimate or not; without a
\* gas limit the gas is the node's estimate, and a failed estimation fails
\* the build.  Every transaction that is returned carries a gas value, the
\* chain id and the sender's nonce.
C28_GasLimitOrEstimate ==
    [][\A t \in Callers, estimate \in GasValues \cup {RpcFail} :
          (/\ built'[t].from \in UserAddrs
           /\ build_transaction(t, built'[t].from, built'[t].to, built'[t].gas_limit,
                                TRUE, estimate))
          => LET gas_limit == built'[t].gas_limit
             IN /\ gas_limit # 0
                      => built'[t].raised = "returned" /\ built'[t].gas = gas_limit
                /\ (gas_limit = 0 /\ estimate # RpcFail)
                      => built'[t].raised = "returned" /\ built'[t].gas = estimate
                /\ (gas_limit = 0 /\ estimate = RpcFail)
                      => built'[t].raised = "RpcError"
                /\ built'[t].raised = "returned"
                      => /\ built'[t].gas \in GasValues
                         /\ built'[t].chainId = ChainId
                         /\ built'[t].nonce = tx_count[built'[t].from]]_vars

\* one caller built with its own gas limit, the other called without one and
\* the estimation failed
C28_Witness ==
    /\ built[1].raised = "returned" /\ built[1].gas_limit # 0 /\ built[1].gas = built[1].gas_limit
    /\ built[1].nonce = 1
    /\ built[2].raised = "RpcError" /\ built[2].gas_limit = 0

\* C29: every step that changes a vault's total_deposits, total_allocated or
\* tvl, a protocol's allocated_amount or a user's balance records the
\* Transaction of its operation in the same commit: exactly one Transaction
\* row of the operation's type and amount is created, or, for a deposit, the
\* row created pending by the same request is completed; no ledger change is
\* committed without a Transaction record.
C29_LedgerChangeHasTransaction ==
    [][LedgerChanged
          => \/ /\ Len(transactions') = Len(transactions) + 1
                /\ transactions'[Len(transactions')].tx_type = resp'.op
                /\ transactions'[Len(transactions')].amount = resp'.amount
                /\ \A i \in 1..Len(transactions) : transactions'[i] = transactions[i]
             \/ /\ Len(transactions') = Len(transactions)
                /\ resp'.op = "deposit"
                /\ \E i \in 1..Len(transactions) :
                      /\ transactions[i].status = "pending"
                      /\ transactions'[i].status = "completed"
                      /\ transactions'[i].tx_type = "deposit"
                      /\ transactions'[i].amount = resp'.amount
                      /\ \A j \in (1..Len(transactions)) \ {i} :
                            transactions'[j] = transactions[j]]_vars

\* C30: processed is terminal and processing happens once: a request whose
\* status is processed keeps its status, processed_at, tx_hash and amount in
\* every later step, a process_withdrawal call on it is answered 400, every
\* request is created in status queued, and a request takes the status ready
\* or cancelled only from queued.
C30_ProcessedTerminal ==
    [][/\ Len(withdrawals') >= Len(withdrawals)
       /\ \A w \in 1..Len(withdrawals) :
             withdrawals[w].status = "processed"
             => /\ withdrawals'[w].status = "processed"
                /\ withdrawals'[w].processed_at = withdrawals[w].processed_at
                /\ withdrawals'[w].tx_hash = withdrawals[w].tx_hash
                /\ withdrawals'[w].amount = withdrawals[w].amount
       /\ \A w \in 1..Len(withdrawals) :
             (/\ resp'.op = "process_withdrawal"
              /\ process_withdrawal(withdrawals[w].vault_id, w)
              /\ withdrawals[w].status = "processed")
             => resp'.code = 400 /\ now' = now
       /\ \A w \in (Len(withdrawals) + 1)..Len(withdrawals') :
             withdrawals'[w].status = "queued"
       /\ \A w \in 1..Len(withdrawals) :
             (/\ withdrawals'[w].status \in {"ready", "cancelled"}
              /\ withdrawals'[w].status # withdrawals[w].status)
             => withdrawals[w].status = "queued"]_vars

\* process_withdrawal was called again on a request already processed and
\* was refused
C30_Witness ==
    /\ resp.op = "process_withdrawal" /\ resp.code = 400
    /\ resp.id \in 1..Len(withdrawals)
    /\ withdrawals[resp.id].status = "processed"
    /\ withdrawals[resp.id].processed_at > 0
    /\ withdrawals[resp.id].tx_hash = "mock"
====
